---- MODULE Spec2Model ----
(***************************************************************************)
(* Model of the Nano Banana front end: the App component (state held in    *)
(* useState cells, its event handlers and the continuations that run when  *)
(* an awaited promise settles) and the request adapter in                  *)
(* services/geminiService.ts.                                              *)
(*                                                                         *)
(* JavaScript strings are sequences of tokens; a comma is always a token   *)
(* of its own, so that String.prototype.split(',') can be computed.  The   *)
(* empty string is << >>.                                                  *)
(***************************************************************************)
EXTENDS Integers, Sequences, FiniteSets, Bags, TLC

VARIABLES
    mode,               \* useState<'editor' | 'generator'>
    isLoading,          \* useState<boolean>
    error,              \* useState<string | null>
    originalImage,      \* useState<string | null>: data URL of the upload
    originalImageFile,  \* useState<File | null>
    editedImage,        \* useState<string | null>
    prompt,             \* useState<string>
    blueprintPrompt,    \* useState<string>
    generatedBlueprint, \* useState<string | null>
    reads,              \* bag of fileToBase64 promises not yet settled
    editCalls,          \* bag of editImage calls awaiting the remote response
    genCalls,           \* bag of generateImage calls awaiting the remote response
    ev                  \* the event handled last (history variable)

vars == << mode, isLoading, error, originalImage, originalImageFile,
           editedImage, prompt, blueprintPrompt, generatedBlueprint,
           reads, editCalls, genCalls, ev >>

----------------------------------------------------------------------------
(* Bounds of the model *)

\* asynchronous operations (file reads and remote calls) outstanding at once
MaxInFlight == 2

\* content parts in the first candidate of a remote response
MaxParts == 3

----------------------------------------------------------------------------
(* JavaScript values *)

\* a one-token string
Str(s) == << s >>

\* JavaScript null: a reserved token that no modelled string consists of
null == << "null" >>

\* JavaScript undefined, likewise
undefined == << "undefined" >>

\* truthiness of a value of type string | null | undefined
Truthy(v) == v # null /\ v # undefined /\ v # << >>

\* s.split(','): the pieces of s between its commas
RECURSIVE split(_)
split(s) ==
    IF \A i \in 1..Len(s) : s[i] # ","
    THEN << s >>
    ELSE LET i == CHOOSE k \in 1..Len(s) :
                      s[k] = "," /\ \A j \in 1..(k - 1) : s[j] # ","
         IN  << SubSeq(s, 1, i - 1) >> \o split(SubSeq(s, i + 1, Len(s)))

\* a[i] of a JavaScript array, zero-based; undefined out of range
At(a, i) == IF i + 1 \in 1..Len(a) THEN a[i + 1] ELSE undefined

\* the template literal `data:${mimeType};base64,${data}`
DataUrl(mimeType, data) ==
    << "data:" >> \o mimeType \o << ";base64", "," >> \o data

----------------------------------------------------------------------------
(* The environment: files the user can pick, text the user can type, and   *)
(* what the remote model can answer                                        *)

\* File objects the user can select
Files == { Str("photo.jpg"), Str("diagram.png") }

\* File.type
FileType(f) == IF f = Str("photo.jpg") THEN Str("image/jpeg") ELSE Str("image/png")

\* base64 text of the bytes of a file
FileBase64(f) == IF f = Str("photo.jpg") THEN Str("/9j/4AAQ") ELSE Str("iVBORw0K")

\* values of the edit instruction textarea
Prompts == { << >>, Str("add a red hat") }

\* values of the blueprint description textarea
BlueprintPrompts == { << >>, Str("a permaculture village") }

\* content parts a response can carry: text, or inline data (possibly empty)
Parts ==
    { [text |-> Str("Here is your image")] } \cup
    { [inlineData |-> [data |-> d, mimeType |-> Str("image/webp")]] :
        d \in { << >>, Str("R0lGODlh"), Str("UklGRjoA") } }

\* sequences of at most n parts
PartSeqs(n) == UNION { [1..k -> Parts] : k \in 0..n }

\* a response of ai.models.generateContent with one candidate
Candidate(parts) == [candidates |-> << [content |-> [parts |-> parts]] >>]

\* a response without candidates
NoCandidate == [candidates |-> << >>]

\* responses of ai.models.generateContent: no candidate, or one candidate
\* of at most MaxParts parts
Responses == { NoCandidate } \cup { Candidate(ps) : ps \in PartSeqs(MaxParts) }

\* the responses the remote model is taken to give the running application:
\* no candidate, no part, text only, an image, an image of no bytes, and
\* text and images in either order
TextPart  == [text |-> Str("Here is your image")]
ImagePart == [inlineData |-> [data |-> Str("R0lGODlh"), mimeType |-> Str("image/webp")]]
EmptyImagePart == [inlineData |-> [data |-> << >>, mimeType |-> Str("image/webp")]]
SampleResponses ==
    { NoCandidate,
      Candidate(<< >>),
      Candidate(<< TextPart >>),
      Candidate(<< ImagePart >>),
      Candidate(<< EmptyImagePart >>),
      Candidate(<< TextPart, ImagePart >>),
      Candidate(<< ImagePart, TextPart >>),
      Candidate(<< EmptyImagePart, ImagePart >>) }

\* how an awaited remote call settles: it throws, or it answers
Threw == [threw |-> TRUE, response |-> NoCandidate]
Answered(response) == [threw |-> FALSE, response |-> response]
Settlements == { Threw } \cup { Answered(r) : r \in SampleResponses }

----------------------------------------------------------------------------
(* utils/fileUtils: fileToBase64 *)

\* the data URL that reading file f yields when the read succeeds
fileToBase64(f) == DataUrl(FileType(f), FileBase64(f))

----------------------------------------------------------------------------
(* services/geminiService.ts: the request adapter *)

\* style variants of generateImage
StyleVariants == { "2d", "3d" }

\* the lookup table of system instructions
systemInstructions(type) ==
    IF type = "2d"
    THEN Str("You are an expert architect and designer specializing in technical blueprints")
    ELSE Str("You are an expert 3D modeler and product designer")

\* the request editImage hands to ai.models.generateContent
editImageRequest(base64ImageData, mimeType, prompt_) ==
    [ model    |-> "gemini-2.5-flash-image",
      contents |-> [parts |-> << [inlineData |-> [data |-> base64ImageData,
                                                  mimeType |-> mimeType]],
                                 [text |-> prompt_] >>],
      config   |-> [responseModalities |-> << "IMAGE" >>] ]

\* the request generateImage hands to ai.models.generateContent
generateImageRequest(prompt_, type) ==
    [ model    |-> "gemini-2.5-flash-image",
      contents |-> [parts |-> << [text |-> prompt_] >>],
      config   |-> [systemInstruction |-> systemInstructions(type),
                    responseModalities |-> << "IMAGE" >>] ]

\* response.candidates?.[0]?.content?.parts || []
candidateParts(response) ==
    IF Len(response.candidates) >= 1
    THEN response.candidates[1].content.parts
    ELSE << >>

\* firstInlineData with the loop running on to the last part that has
\* inlineData
RECURSIVE firstInlineData_LastWins(_)
firstInlineData_LastWins(parts) ==
    IF Len(parts) = 0 THEN null
    ELSE IF "inlineData" \in DOMAIN parts[Len(parts)]
         THEN parts[Len(parts)].inlineData.data
         ELSE firstInlineData_LastWins(SubSeq(parts, 1, Len(parts) - 1))

\* the for loop over the parts: the data of the first part that has
\* inlineData, null when the loop runs out
RECURSIVE firstInlineData(_)
firstInlineData(parts) ==
    IF Len(parts) = 0 THEN null
    ELSE IF "inlineData" \in DOMAIN Head(parts)
         THEN Head(parts).inlineData.data
         ELSE firstInlineData(Tail(parts))

\* how the promise of editImage settles, given how the remote call settled
editImage(settlement) ==
    IF settlement.threw
    THEN [threw |-> TRUE, value |-> null]
    ELSE [threw |-> FALSE,
          value |-> firstInlineData(candidateParts(settlement.response))]

\* how the promise of generateImage settles, given how the remote call settled
generateImage(settlement) ==
    IF settlement.threw
    THEN [threw |-> TRUE, value |-> null]
    ELSE [threw |-> FALSE,
          value |-> firstInlineData(candidateParts(settlement.response))]

----------------------------------------------------------------------------
(* App: messages *)

ReadFailedMsg      == Str("Failed to read the image file.")
EditValidationMsg  == Str("Please upload an image and enter a prompt.")
NoImageMsg         == Str("The model did not return an image. Please try a different prompt.")
EditFailedMsg      == Str("An error occurred while generating the image. Please try again.")
BlueprintValidationMsg == Str("Please enter a description for your blueprint.")
BlueprintFailedMsg == Str("An error occurred while generating the blueprint. Please try again.")

----------------------------------------------------------------------------
(* App: state after the first render *)

\* number of asynchronous operations outstanding
InFlight == BagCardinality(reads) + BagCardinality(editCalls) + BagCardinality(genCalls)

\* the parts of the first candidate of a response, none without a candidate
PartsOf(response) ==
    IF response.candidates = << >> THEN << >>
    ELSE Head(response.candidates).content.parts

\* whether some part of the sequence carries inline data
HasInline(parts) == \E i \in 1..Len(parts) : "inlineData" \in DOMAIN parts[i]

\* the data of the part with the least index among those carrying inline data
FirstInline(parts) ==
    LET i == CHOOSE k \in 1..Len(parts) :
                 /\ "inlineData" \in DOMAIN parts[k]
                 /\ \A j \in 1..(k - 1) : "inlineData" \notin DOMAIN parts[j]
    IN  parts[i].inlineData.data

\* the value of ev.call where no remote call is concerned
NoCall == [request |-> [model |-> "none"]]

\* the value of ev after an event that settles no remote call: call is the
\* call issued, if one was; wanted is the style variant the user had in
\* mind, "" where there is none
Event(kind, out, call, wanted) ==
    [kind |-> kind, out |-> out, call |-> call, wanted |-> wanted,
     threw |-> FALSE, inline |-> FALSE, first |-> null, result |-> null]

\* the value of ev after the continuation of a remote call ran: call is
\* the call that settled; threw, inline and first describe the settlement;
\* result is what the adapter returned
Settled(kind, out, call, settlement, result) ==
    [kind |-> kind, out |-> out, call |-> call, wanted |-> "",
     threw  |-> settlement.threw,
     inline |-> ~settlement.threw /\ HasInline(PartsOf(settlement.response)),
     first  |-> IF ~settlement.threw /\ HasInline(PartsOf(settlement.response))
                THEN FirstInline(PartsOf(settlement.response)) ELSE null,
     result |-> result.value]

Init ==
    /\ mode = "editor"
    /\ isLoading = FALSE
    /\ error = null
    /\ originalImage = null
    /\ originalImageFile = null
    /\ editedImage = null
    /\ prompt = << >>
    /\ blueprintPrompt = << >>
    /\ generatedBlueprint = null
    /\ reads = EmptyBag
    /\ editCalls = EmptyBag
    /\ genCalls = EmptyBag
    /\ ev = Event("init", "", NoCall, "")

----------------------------------------------------------------------------
(* App: event handlers *)

\* onChange of the file input, up to the await of fileToBase64
handleImageUpload(file) ==
    IF Truthy(file)
    THEN /\ InFlight < MaxInFlight
         /\ editedImage' = null
         /\ error' = null
         /\ originalImageFile' = file
         /\ reads' = reads (+) SetToBag({file})
         /\ ev' = Event("handleImageUpload", "reading", NoCall, "")
         /\ UNCHANGED << mode, isLoading, originalImage, prompt, blueprintPrompt,
                         generatedBlueprint, editCalls, genCalls >>
    ELSE /\ ev' = Event("handleImageUpload", "nofile", NoCall, "")
         /\ UNCHANGED << mode, isLoading, error, originalImage, originalImageFile,
                         editedImage, prompt, blueprintPrompt, generatedBlueprint,
                         reads, editCalls, genCalls >>

\* handleImageUpload after the await: fileToBase64(file) resolved or rejected
handleImageUploadResume(file, resolved) ==
    /\ BagIn(file, reads)
    /\ reads' = reads (-) SetToBag({file})
    /\ IF resolved
       THEN /\ originalImage' = fileToBase64(file)
            /\ error' = error
       ELSE /\ error' = ReadFailedMsg
            /\ originalImage' = originalImage
    /\ ev' = Event("handleImageUploadResume", IF resolved THEN "resolved" ELSE "rejected", NoCall, "")
    /\ UNCHANGED << mode, isLoading, originalImageFile, editedImage, prompt,
                    blueprintPrompt, generatedBlueprint, editCalls, genCalls >>

\* onChange of the edit instruction textarea
setPrompt(value) ==
    /\ prompt' = value
    /\ ev' = Event("setPrompt", "", NoCall, "")
    /\ UNCHANGED << mode, isLoading, error, originalImage, originalImageFile,
                    editedImage, blueprintPrompt, generatedBlueprint,
                    reads, editCalls, genCalls >>

\* onChange of the blueprint description textarea
setBlueprintPrompt(value) ==
    /\ blueprintPrompt' = value
    /\ ev' = Event("setBlueprintPrompt", "", NoCall, "")
    /\ UNCHANGED << mode, isLoading, error, originalImage, originalImageFile,
                    editedImage, prompt, generatedBlueprint,
                    reads, editCalls, genCalls >>

\* what handleGenerateEdit keeps of one call across its await: the request
\* sent and the originalImageFile of the render it was invoked in
EditCall ==
    LET base64Data == At(split(originalImage), 1)
    IN  [ request |-> editImageRequest(base64Data, FileType(originalImageFile), prompt),
          originalImageFile |-> originalImageFile ]

\* EditInputMissing without its test of the instruction
EditInputMissing_NoPromptTest ==
    ~Truthy(originalImage) \/ ~Truthy(originalImageFile)

\* what handleGenerateEdit sets the error message to before its call
EditErrorOnSubmit_Kept == error

\* what handleGenerateEdit sets the error message to before its call
EditErrorOnSubmit == null

\* the guard of handleGenerateEdit: !originalImage || !prompt || !originalImageFile
EditInputMissing ==
    ~Truthy(originalImage) \/ ~Truthy(prompt) \/ ~Truthy(originalImageFile)

\* onClick of Generate, up to the await of editImage
handleGenerateEdit ==
    IF EditInputMissing
    THEN /\ error' = EditValidationMsg
         /\ ev' = Event("handleGenerateEdit", "rejected", NoCall, "")
         /\ UNCHANGED << mode, isLoading, originalImage, originalImageFile,
                         editedImage, prompt, blueprintPrompt, generatedBlueprint,
                         reads, editCalls, genCalls >>
    ELSE /\ InFlight < MaxInFlight
         /\ isLoading' = TRUE
         /\ error' = EditErrorOnSubmit
         /\ editedImage' = null
         /\ editCalls' = editCalls (+) SetToBag({EditCall})
         /\ ev' = Event("handleGenerateEdit", "accepted", EditCall, "")
         /\ UNCHANGED << mode, originalImage, originalImageFile, prompt,
                         blueprintPrompt, generatedBlueprint, reads, genCalls >>

\* EditedImageUrl with the media type of a generation
EditedImageUrl_DefaultType(call, result) == DataUrl(Str("image/png"), result)

\* the string handed to setEditedImage
EditedImageUrl(call, result) == DataUrl(FileType(call.originalImageFile), result)

\* EditFinally with the flag cleared only when the call did not throw
EditFinally_NotOnThrow == isLoading' = (IF ev'.threw THEN isLoading ELSE FALSE)

\* the finally block of handleGenerateEdit
EditFinally == isLoading' = FALSE

\* EditCallsAfter with a call that threw issued again
EditCallsAfter_Retry(call, result) ==
    IF result.threw THEN editCalls ELSE editCalls (-) SetToBag({call})

\* the edit calls awaiting a response once the await of `call` is over,
\* whatever its result: the handler awaits editImage once and calls it
\* nowhere else
EditCallsAfter(call, result) == editCalls (-) SetToBag({call})

\* handleGenerateEdit after the await: the remote call of `call` settled
handleGenerateEditResume(call, settlement) ==
    /\ BagIn(call, editCalls)
    /\ editCalls' = EditCallsAfter(call, editImage(settlement))
    /\ LET result == editImage(settlement)
       IN  IF result.threw
           THEN /\ error' = EditFailedMsg
                /\ editedImage' = editedImage
                /\ ev' = Settled("handleGenerateEditResume", "failed", call, settlement, result)
           ELSE IF Truthy(result.value)
                THEN /\ editedImage' = EditedImageUrl(call, result.value)
                     /\ error' = error
                     /\ ev' = Settled("handleGenerateEditResume", "image", call, settlement, result)
                ELSE /\ error' = NoImageMsg
                     /\ editedImage' = editedImage
                     /\ ev' = Settled("handleGenerateEditResume", "absent", call, settlement, result)
    /\ EditFinally
    /\ UNCHANGED << mode, originalImage, originalImageFile, prompt, blueprintPrompt,
                    generatedBlueprint, reads, genCalls >>

\* the guard of handleGenerateBlueprint: !blueprintPrompt
BlueprintInputMissing == ~Truthy(blueprintPrompt)

\* what handleGenerateBlueprint keeps of one call across its await: the
\* request sent; generateImage is called with one argument, so its second
\* parameter takes its default
BlueprintCall == [ request |-> generateImageRequest(blueprintPrompt, "2d") ]

\* handleGenerateBlueprint clearing the edited image in place of the
\* blueprint
handleGenerateBlueprint_ClearsEditedImage(wanted) ==
    IF BlueprintInputMissing
    THEN /\ error' = BlueprintValidationMsg
         /\ ev' = Event("handleGenerateBlueprint", "rejected", NoCall, wanted)
         /\ UNCHANGED << mode, isLoading, originalImage, originalImageFile,
                         editedImage, prompt, blueprintPrompt, generatedBlueprint,
                         reads, editCalls, genCalls >>
    ELSE /\ InFlight < MaxInFlight
         /\ isLoading' = TRUE
         /\ error' = null
         /\ editedImage' = null
         /\ genCalls' = genCalls (+) SetToBag({BlueprintCall})
         /\ ev' = Event("handleGenerateBlueprint", "accepted", BlueprintCall, wanted)
         /\ UNCHANGED << mode, originalImage, originalImageFile, generatedBlueprint,
                         prompt, blueprintPrompt, reads, editCalls >>

\* onClick of Generate Blueprint, up to the await of generateImage; `wanted`
\* is the style variant the user has in mind, for which App has no state
handleGenerateBlueprint(wanted) ==
    IF BlueprintInputMissing
    THEN /\ error' = BlueprintValidationMsg
         /\ ev' = Event("handleGenerateBlueprint", "rejected", NoCall, wanted)
         /\ UNCHANGED << mode, isLoading, originalImage, originalImageFile,
                         editedImage, prompt, blueprintPrompt, generatedBlueprint,
                         reads, editCalls, genCalls >>
    ELSE /\ InFlight < MaxInFlight
         /\ isLoading' = TRUE
         /\ error' = null
         /\ generatedBlueprint' = null
         /\ genCalls' = genCalls (+) SetToBag({BlueprintCall})
         /\ ev' = Event("handleGenerateBlueprint", "accepted", BlueprintCall, wanted)
         /\ UNCHANGED << mode, originalImage, originalImageFile, editedImage,
                         prompt, blueprintPrompt, reads, editCalls >>

\* the string handed to setGeneratedBlueprint
BlueprintUrl(result) == DataUrl(Str("image/png"), result)

\* the finally block of handleGenerateBlueprint
BlueprintFinally == isLoading' = FALSE

\* handleGenerateBlueprint after the await: the remote call of `call` settled
handleGenerateBlueprintResume(call, settlement) ==
    /\ BagIn(call, genCalls)
    /\ genCalls' = genCalls (-) SetToBag({call})
    /\ LET result == generateImage(settlement)
       IN  IF result.threw
           THEN /\ error' = BlueprintFailedMsg
                /\ generatedBlueprint' = generatedBlueprint
                /\ ev' = Settled("handleGenerateBlueprintResume", "failed", call, settlement, result)
           ELSE IF Truthy(result.value)
                THEN /\ generatedBlueprint' = BlueprintUrl(result.value)
                     /\ error' = error
                     /\ ev' = Settled("handleGenerateBlueprintResume", "image", call, settlement, result)
                ELSE /\ error' = NoImageMsg
                     /\ generatedBlueprint' = generatedBlueprint
                     /\ ev' = Settled("handleGenerateBlueprintResume", "absent", call, settlement, result)
    /\ BlueprintFinally
    /\ UNCHANGED << mode, originalImage, originalImageFile, editedImage, prompt,
                    blueprintPrompt, reads, editCalls >>

\* switchMode clearing the result of the workflow it leaves
switchMode_ClearsResult(newMode) ==
    /\ mode' = newMode
    /\ isLoading' = FALSE
    /\ error' = null
    /\ editedImage' = (IF newMode = "generator" THEN null ELSE editedImage)
    /\ generatedBlueprint' = (IF newMode = "editor" THEN null ELSE generatedBlueprint)
    /\ ev' = Event("switchMode", "", NoCall, "")
    /\ UNCHANGED << originalImage, originalImageFile, prompt, blueprintPrompt,
                    reads, editCalls, genCalls >>

\* onClick of a tab
switchMode(newMode) ==
    /\ mode' = newMode
    /\ isLoading' = FALSE
    /\ error' = null
    /\ ev' = Event("switchMode", "", NoCall, "")
    /\ UNCHANGED << originalImage, originalImageFile, editedImage, prompt,
                    blueprintPrompt, generatedBlueprint, reads, editCalls, genCalls >>

----------------------------------------------------------------------------
(* The handlers, invoked in any state *)

UploadStep == \E file \in Files \cup {undefined} : handleImageUpload(file)

UploadResumeStep ==
    \E file \in BagToSet(reads), resolved \in BOOLEAN :
        handleImageUploadResume(file, resolved)

PromptStep == \E value \in Prompts : setPrompt(value)

BlueprintPromptStep == \E value \in BlueprintPrompts : setBlueprintPrompt(value)

EditStep == handleGenerateEdit

EditResumeStep ==
    \E call \in BagToSet(editCalls), settlement \in Settlements :
        handleGenerateEditResume(call, settlement)

BlueprintStep == \E wanted \in StyleVariants : handleGenerateBlueprint(wanted)

BlueprintResumeStep ==
    \E call \in BagToSet(genCalls), settlement \in Settlements :
        handleGenerateBlueprintResume(call, settlement)

SwitchStep == \E newMode \in { "editor", "generator" } : switchMode(newMode)

Next ==
    \/ UploadStep
    \/ UploadResumeStep
    \/ PromptStep
    \/ BlueprintPromptStep
    \/ EditStep
    \/ EditResumeStep
    \/ BlueprintStep
    \/ BlueprintResumeStep
    \/ SwitchStep

Spec == Init /\ [][Next]_vars

----------------------------------------------------------------------------
(* The handlers, invoked through the controls that App renders *)

\* {mode === 'editor' && ...}
EditorRendered == mode = "editor"

\* {mode === 'generator' && ...}
GeneratorRendered == mode = "generator"

\* the instruction textarea: disabled={!originalImage}
PromptEnabled == ~(~Truthy(originalImage))

\* the Generate button: disabled={!originalImage || !prompt || isLoading}
GenerateEnabled == ~(~Truthy(originalImage) \/ ~Truthy(prompt) \/ isLoading)

\* the Generate Blueprint button: disabled={!blueprintPrompt || isLoading}
GenerateBlueprintEnabled == ~(~Truthy(blueprintPrompt) \/ isLoading)

UIUpload == EditorRendered /\ UploadStep

UIPrompt == EditorRendered /\ PromptEnabled /\ PromptStep

UIEdit == EditorRendered /\ GenerateEnabled /\ EditStep

UIBlueprintPrompt == GeneratorRendered /\ BlueprintPromptStep

UIBlueprint == GeneratorRendered /\ GenerateBlueprintEnabled /\ BlueprintStep

NextUI ==
    \/ UIUpload
    \/ UploadResumeStep
    \/ UIPrompt
    \/ UIBlueprintPrompt
    \/ UIEdit
    \/ EditResumeStep
    \/ UIBlueprint
    \/ BlueprintResumeStep
    \/ SwitchStep

SpecUI == Init /\ [][NextUI]_vars

----------------------------------------------------------------------------
(* The handlers, with every remote call eventually settling *)

\* the edit calls the handlers can issue
AllEditCalls ==
    { [ request |-> editImageRequest(FileBase64(f), FileType(g), p),
        originalImageFile |-> g ] : f \in Files, g \in Files, p \in Prompts \ { << >> } }

\* the generation calls the handlers can issue
AllBlueprintCalls ==
    { [ request |-> generateImageRequest(p, "2d") ] : p \in BlueprintPrompts \ { << >> } }

\* the remote call of `call` settles
EditSettles(call) == \E settlement \in Settlements : handleGenerateEditResume(call, settlement)
BlueprintSettles(call) == \E settlement \in Settlements : handleGenerateBlueprintResume(call, settlement)

\* the outcomes of a remote call: it throws, it answers without an image,
\* it answers with an image
OutcomeSettlements ==
    { Threw, Answered(Candidate(<< TextPart >>)), Answered(Candidate(<< ImagePart >>)) }

\* the handlers invoked in any state, for one file and one settlement of
\* each outcome
NextFair ==
    \/ \E file \in { Str("photo.jpg") } : handleImageUpload(file)
    \/ UploadResumeStep
    \/ PromptStep
    \/ BlueprintPromptStep
    \/ EditStep
    \/ \E call \in BagToSet(editCalls), settlement \in OutcomeSettlements :
          handleGenerateEditResume(call, settlement)
    \/ \E wanted \in { "2d" } : handleGenerateBlueprint(wanted)
    \/ \E call \in BagToSet(genCalls), settlement \in OutcomeSettlements :
          handleGenerateBlueprintResume(call, settlement)
    \/ SwitchStep

\* every remote call eventually settles
SpecFair ==
    /\ Init /\ [][NextFair]_vars
    /\ \A call \in AllEditCalls : WF_vars(EditSettles(call))
    /\ \A call \in AllBlueprintCalls : WF_vars(BlueprintSettles(call))

----------------------------------------------------------------------------
(* The request adapter alone, applied to every response within MaxParts *)

\* editImage applied to a settlement of its remote call
editImageStep ==
    \E settlement \in { Threw } \cup { Answered(r) : r \in Responses } :
        /\ ev' = [kind |-> "editImage", settlement |-> settlement,
                  result |-> editImage(settlement)]
        /\ UNCHANGED << mode, isLoading, error, originalImage, originalImageFile,
                        editedImage, prompt, blueprintPrompt, generatedBlueprint,
                        reads, editCalls, genCalls >>

\* generateImage applied to a settlement of its remote call
generateImageStep ==
    \E settlement \in { Threw } \cup { Answered(r) : r \in Responses } :
        /\ ev' = [kind |-> "generateImage", settlement |-> settlement,
                  result |-> generateImage(settlement)]
        /\ UNCHANGED << mode, isLoading, error, originalImage, originalImageFile,
                        editedImage, prompt, blueprintPrompt, generatedBlueprint,
                        reads, editCalls, genCalls >>

NextAdapter == editImageStep \/ generateImageStep

SpecAdapter == Init /\ [][NextAdapter]_vars

----------------------------------------------------------------------------
(* Properties *)

\* a call was added to the calls awaiting a response
CallIssued == editCalls' # editCalls \/ genCalls' # genCalls

\* C1: a submission that is missing a required input (an edit with no
\* stored image payload, no stored file or an empty instruction; a
\* generation with an empty description) issues no remote call and sets the
\* error message to the validation message of its workflow.
C1_RejectedSubmissionIssuesNoCall ==
    [][ /\ ( /\ ev'.kind = "handleGenerateEdit"
             /\ (originalImage = null \/ originalImageFile = null \/ prompt = << >>) )
           => (~CallIssued /\ error' = EditValidationMsg)
        /\ ( /\ ev'.kind = "handleGenerateBlueprint"
             /\ blueprintPrompt = << >> )
           => (~CallIssued /\ error' = BlueprintValidationMsg) ]_vars

\* C1, witness: an edit was submitted with an image stored and an empty
\* instruction while a generation call was pending, and was rejected
C1_Witness ==
    /\ ev.kind = "handleGenerateEdit"
    /\ originalImage # null /\ prompt = << >>
    /\ error = EditValidationMsg
    /\ BagCardinality(genCalls) = 1 /\ BagCardinality(editCalls) = 0

\* C2: at most one remote edit call is in flight, whatever mode switches
\* and file selections are made while a request is pending.
C2_AtMostOneEditInFlight == BagCardinality(editCalls) <= 1

\* the media type an edit result is to be tagged with: that of the file
\* stored when the edit was submitted
UploadType(call) == FileType(call.originalImageFile)

C4_AbsentLeavesResultEmpty ==
    /\ (ev.kind = "handleGenerateEditResume" /\ ~ev.threw /\ ~ev.inline)
          => (ev.result = null /\ editedImage = null /\ error = NoImageMsg)
    /\ (ev.kind = "handleGenerateBlueprintResume" /\ ~ev.threw /\ ~ev.inline)
          => (ev.result = null /\ generatedBlueprint = null /\ error = NoImageMsg)

\* C5: after the continuation of a call that threw, the loading flag is
\* cleared, the generic error message of the workflow is shown and the
\* result image of the workflow is empty.
C5_FailureLeavesResultEmpty ==
    /\ (ev.kind = "handleGenerateEditResume" /\ ev.threw)
          => (isLoading = FALSE /\ error = EditFailedMsg /\ editedImage = null)
    /\ (ev.kind = "handleGenerateBlueprintResume" /\ ev.threw)
          => (isLoading = FALSE /\ error = BlueprintFailedMsg /\ generatedBlueprint = null)

\* C6: a mode switch leaves both results, the stored upload and both
\* prompt texts unchanged; hence so does switching to the other mode and
\* back.
C6_SwitchModeKeepsResults ==
    [][ ev'.kind = "switchMode"
          => UNCHANGED << editedImage, generatedBlueprint, originalImage,
                          originalImageFile, prompt, blueprintPrompt >> ]_vars

\* C6, witness: back in the editor after a switch, with a result of each
\* workflow still stored
C6_Witness ==
    /\ ev.kind = "switchMode" /\ mode = "editor"
    /\ editedImage # null /\ generatedBlueprint # null

\* C7: after a failed conversion of a selected file the read-failure
\* message is set and neither an image payload nor a file is stored.
C7_ReadFailureLeavesInputUnset ==
    (ev.kind = "handleImageUploadResume" /\ ev.out = "rejected")
        => (error = ReadFailedMsg /\ originalImage = null /\ originalImageFile = null)

\* C8: an accepted generation submission attaches to the remote request
\* the system instruction of the style variant the user selected, for each
\* of the variants 2d and 3d.
C8_RequestCarriesSelectedStyle ==
    (ev.kind = "handleGenerateBlueprint" /\ ev.out = "accepted")
        => ev.call.request.config.systemInstruction = systemInstructions(ev.wanted)

\* C9: every call awaiting its response leads to a state in which the
\* continuation of that call has run and the loading flag is false.
C9_AcceptedSubmissionClearsLoading ==
    /\ \A call \in AllEditCalls :
          BagIn(call, editCalls)
            ~> (ev.kind = "handleGenerateEditResume" /\ ev.call = call /\ isLoading = FALSE)
    /\ \A call \in AllBlueprintCalls :
          BagIn(call, genCalls)
            ~> (ev.kind = "handleGenerateBlueprintResume" /\ ev.call = call /\ isLoading = FALSE)

\* C9, witness: the continuation of an edit call that threw has run, the
\* loading flag is false and no call is pending
C9_Witness ==
    /\ ev.kind = "handleGenerateEditResume" /\ ev.threw
    /\ isLoading = FALSE /\ InFlight = 0

\* C10: the adapter's result for a response is the data of the first part
\* of the first candidate that carries inline data, and null when no part
\* does or there is no candidate.
C10_AdapterReturnsFirstInlineData ==
    (ev.kind \in { "editImage", "generateImage" } /\ ~ev.settlement.threw)
        => /\ ~ev.result.threw
           /\ ev.result.value =
                 IF HasInline(PartsOf(ev.settlement.response))
                 THEN FirstInline(PartsOf(ev.settlement.response))
                 ELSE null

\* C10, witness: text, then two different images: the first image is the
\* result
C10_Witness ==
    /\ ev.kind = "editImage" /\ ~ev.settlement.threw
    /\ PartsOf(ev.settlement.response) =
          << TextPart,
             [inlineData |-> [data |-> Str("UklGRjoA"), mimeType |-> Str("image/webp")]],
             ImagePart >>
    /\ ev.result.value = Str("UklGRjoA")

\* the number of remote calls awaiting a response
Calls == BagCardinality(editCalls) + BagCardinality(genCalls)

\* the events that are submissions, and those that are continuations of
\* remote calls
Submissions == { "handleGenerateEdit", "handleGenerateBlueprint" }
Continuations == { "handleGenerateEditResume", "handleGenerateBlueprintResume" }

\* C11: one attempt per submission: a step issues a remote call only if it
\* is an accepted submission, and then exactly one; the continuation of a
\* call takes that call away and issues none; a call that threw is
\* surfaced as a failure (the generic message of its workflow).
C11_SingleAttemptPerSubmission ==
    [][ /\ (\E c \in BagToSet(editCalls') : CopiesIn(c, editCalls') > CopiesIn(c, editCalls))
           => (ev'.kind = "handleGenerateEdit" /\ ev'.out = "accepted")
        /\ (\E c \in BagToSet(genCalls') : CopiesIn(c, genCalls') > CopiesIn(c, genCalls))
           => (ev'.kind = "handleGenerateBlueprint" /\ ev'.out = "accepted")
        /\ (ev'.kind \in Submissions /\ ev'.out = "accepted") => Calls' = Calls + 1
        /\ (ev'.kind \in Submissions /\ ev'.out = "rejected") => Calls' = Calls
        /\ ev'.kind \in Continuations => Calls' = Calls - 1
        /\ (ev'.kind = "handleGenerateEditResume" /\ ev'.threw)
           => (ev'.out = "failed" /\ error' = EditFailedMsg)
        /\ (ev'.kind = "handleGenerateBlueprintResume" /\ ev'.threw)
           => (ev'.out = "failed" /\ error' = BlueprintFailedMsg) ]_vars

\* C11, witness: the only call, a generation, threw; its failure is shown
\* and no call is awaiting a response
C11_Witness ==
    /\ ev.kind = "handleGenerateBlueprintResume" /\ ev.threw
    /\ error = BlueprintFailedMsg
    /\ Calls = 0

\* C12: right after an accepted submission, when its remote call has been
\* issued, the error message is empty, the loading flag is true and the
\* result image of the workflow is empty.
C12_SubmissionClearsMessageAndResult ==
    /\ (ev.kind = "handleGenerateEdit" /\ ev.out = "accepted")
          => (BagIn(ev.call, editCalls) /\ error = null /\ isLoading /\ editedImage = null)
    /\ (ev.kind = "handleGenerateBlueprint" /\ ev.out = "accepted")
          => (BagIn(ev.call, genCalls) /\ error = null /\ isLoading /\ generatedBlueprint = null)

\* C12, witness: an edit was accepted while the result of an earlier
\* generation is on display
C12_Witness ==
    /\ ev.kind = "handleGenerateEdit" /\ ev.out = "accepted"
    /\ error = null /\ isLoading /\ editedImage = null
    /\ generatedBlueprint # null

\* the image data a call was made with
CallData(call) == call.request.contents.parts[1].inlineData.data

\* the media type a call was made with
CallType(call) == call.request.contents.parts[1].inlineData.mimeType

\* C13: whenever an edit submission is accepted, the stored image payload
\* is the conversion of the stored file, so that the call carries the data
\* and the media type of one file.
C13_CallCarriesDataAndTypeOfOneFile ==
    (ev.kind = "handleGenerateEdit" /\ ev.out = "accepted")
        => /\ originalImage = fileToBase64(originalImageFile)
           /\ \E f \in Files : CallData(ev.call) = FileBase64(f) /\ CallType(ev.call) = FileType(f)

\* C14: an edited image put on display is the result of a request made
\* with the original image that is stored.
C14_EditedImageIsOfStoredOriginal ==
    (ev.kind = "handleGenerateEditResume" /\ ev.out = "image" /\ editedImage # null)
        => CallData(ev.call) = At(split(originalImage), 1)

\* C15: while a remote call is awaiting its response the loading flag is
\* true.
C15_LoadingWhileCallInFlight == Calls > 0 => isLoading

\* C16: the continuation of a call of the workflow that is not the active
\* one (the call was submitted before the mode was switched) leaves the
\* error message as it is.
C16_StaleCompletionKeepsError ==
    [][ ( \/ (ev'.kind = "handleGenerateEditResume" /\ mode = "generator")
          \/ (ev'.kind = "handleGenerateBlueprintResume" /\ mode = "editor") )
          => error' = error ]_vars

\* C17: submitting an edit, its continuation and selecting a file leave the
\* generated blueprint and the blueprint description unchanged; submitting
\* a generation and its continuation leave the stored upload, the edit
\* instruction and the edited image unchanged.
C17_WorkflowsKeepToTheirFields ==
    [][ /\ ev'.kind \in { "handleImageUpload", "handleImageUploadResume",
                          "handleGenerateEdit", "handleGenerateEditResume" }
           => UNCHANGED << generatedBlueprint, blueprintPrompt >>
        /\ ev'.kind \in { "handleGenerateBlueprint", "handleGenerateBlueprintResume" }
           => UNCHANGED << originalImage, originalImageFile, prompt, editedImage >> ]_vars

\* C17, witness: a generation was accepted while an edited image is on
\* display, and the edited image, the upload and the instruction are there
C17_Witness ==
    /\ ev.kind = "handleGenerateBlueprint" /\ ev.out = "accepted"
    /\ editedImage # null /\ originalImage # null /\ originalImageFile # null
    /\ prompt # << >>

====
